---- MODULE Spec2Model ----
(***************************************************************************)
(* View-state model of the portfolio script (src/script.js): the contact   *)
(* form (validation, simulated asynchronous submission), the navigation    *)
(* (throttled scroll handlers, mobile menu, smooth scroll) and the         *)
(* keyboard handlers.  Every event handler is one atomic action, as it     *)
(* runs to completion on the single UI thread; timers are entries of one   *)
(* timer list.                                                             *)
(***************************************************************************)
EXTENDS Integers, Sequences, FiniteSets, TLC

\* ------------------------------------------------------------------------
\* Bounds of the model
\* ------------------------------------------------------------------------

\* Largest number of form timers (submission and success-hide timers)
\* outstanding at once; handleSubmit is not explored beyond it.
MaxFormTimers == 2

\* Longest message typed when validateMessage is checked on its own
MessageMaxLen == 11

\* ------------------------------------------------------------------------
\* Program constants
\* ------------------------------------------------------------------------

ThrottleLimit == 100
ScrolledThreshold == 50
ActiveLookahead == 200
HeaderOffset == 80
MinNameLength == 2
MinMessageLength == 10
SubmissionDelay == 2000
SuccessDisplayDelay == 5000

\* ------------------------------------------------------------------------
\* Strings are sequences of one-character strings.
\* ------------------------------------------------------------------------

Whitespace == {" "}

RECURSIVE TrimStart(_)
TrimStart(s) ==
    IF s # <<>> /\ Head(s) \in Whitespace THEN TrimStart(Tail(s)) ELSE s

RECURSIVE TrimEnd(_)
TrimEnd(s) ==
    IF s # <<>> /\ s[Len(s)] \in Whitespace
    THEN TrimEnd(SubSeq(s, 1, Len(s) - 1))
    ELSE s

\* String.prototype.trim
Trim(s) == TrimEnd(TrimStart(s))

\* [^\s@] : one character that is neither whitespace nor "@"
PlainChar(c) == c \notin Whitespace /\ c # "@"

\* /^[^\s@]+@[^\s@]+\.[^\s@]+$/.test(s)
EmailRegexTest(s) ==
    \E at \in 2..Len(s) :
        /\ s[at] = "@"
        /\ \A i \in 1..(at - 1) : PlainChar(s[i])
        /\ \A i \in (at + 1)..Len(s) : PlainChar(s[i])
        /\ \E dot \in (at + 2)..(Len(s) - 1) : s[dot] = "."

\* ------------------------------------------------------------------------
\* Contact form: fields and validators
\* ------------------------------------------------------------------------

Fields == {"name", "email", "message"}

NoError == [ok |-> TRUE, text |-> ""]
Failure(msg) == [ok |-> FALSE, text |-> msg]

\* validateName, as the verdict it returns and the message it shows
CheckName(v) ==
    LET name == Trim(v) IN
    IF Len(name) = 0 THEN Failure("Le nom est requis")
    ELSE IF Len(name) < MinNameLength
         THEN Failure("Le nom doit contenir au moins 2 caracteres")
         ELSE NoError

\* validateEmail
CheckEmail(v) ==
    LET email == Trim(v) IN
    IF Len(email) = 0 THEN Failure("L'email est requis")
    ELSE IF ~EmailRegexTest(email)
         THEN Failure("Veuillez entrer un email valide")
         ELSE NoError

\* validateMessage
\* Mutant of CheckMessage: the value is measured as typed, not trimmed
CheckMessageUntrimmed(v) ==
    IF Len(v) = 0 THEN Failure("Le message est requis")
    ELSE IF Len(v) < MinMessageLength
         THEN Failure("Le message doit contenir au moins 10 caracteres")
         ELSE NoError

CheckMessage(v) ==
    LET message == Trim(v) IN
    IF Len(message) = 0 THEN Failure("Le message est requis")
    ELSE IF Len(message) < MinMessageLength
         THEN Failure("Le message doit contenir au moins 10 caracteres")
         ELSE NoError

\* The validator bound to each field
Check(f, v) ==
    CASE f = "name" -> CheckName(v)
      [] f = "email" -> CheckEmail(v)
      [] f = "message" -> CheckMessage(v)

\* Values a user types into each field
NameValues == { <<>>, <<" ">>, <<"A">>, <<"J", "o">> }
EmailValues == { <<>>, <<"a", "b", "c">>, <<"a", "@", "b", ".", "c">> }
MessageValues ==
    { <<>>,
      <<"H", "e", "l", "l", "o", " ", "y", "o", "u">>,
      <<"H", "e", "l", "l", "o", " ", "y", "o", "u", "!">> }

TypedValues(f) ==
    CASE f = "name" -> NameValues
      [] f = "email" -> EmailValues
      [] f = "message" -> MessageValues

Empty == <<>>

\* ------------------------------------------------------------------------
\* State
\* ------------------------------------------------------------------------

VARIABLES
    value,              \* input.value of each field
    inputError,         \* input.classList has 'error'
    errorVisible,       \* the field's error element has class 'visible'
    errorText,          \* textContent of the field's error element
    touched,            \* history: the field's validator has run (blur or submit)
    disabled,           \* submitButton.disabled
    textDisplay,        \* buttonText.style.display
    loaderDisplay,      \* buttonLoader.style.display
    successVisible,     \* formSuccess.classList has 'visible'
    formSuccessPresent, \* the document has an element with id formSuccess
    sections,           \* document.querySelectorAll('section[id]'), in document order
    scrollY,            \* window.scrollY
    navScrolled,        \* nav.classList has 'scrolled'
    activeLinks,        \* the nav links whose classList has 'active'
    inThrottle,         \* the inThrottle flag of each throttled scroll handler
    menuActive,         \* navMenu.classList has 'active'
    ariaExpanded,       \* navToggle's aria-expanded attribute
    focus,              \* document.activeElement
    revealStyle,        \* style.opacity and style.transform of each [data-animate] element
    skillProgress,      \* the --progress-width property of each skill bar
    skillAnimated,      \* the skill bar's classList has 'animated'
    skillObserved,      \* the skill bars their observer still observes
    skillRuns,          \* history: how often each skill bar was animated
    imgSrc,             \* the src attribute of each lazy image
    imgDataSrc,         \* the data-src attribute of each lazy image
    imgObserved,        \* the images their observer still observes
    imgLoads,           \* history: how often each image's src was assigned
    entries,            \* the entries given to the last observer callback
    timers,             \* outstanding setTimeout calls, in order of creation
    lastEvent           \* the event or callback that ran last

formVars ==
    << value, inputError, errorVisible, errorText, touched, disabled,
       textDisplay, loaderDisplay, successVisible, formSuccessPresent >>

scrollVars == << scrollY, navScrolled, activeLinks, inThrottle >>

menuVars == << menuActive, ariaExpanded, focus >>

navVars == << sections, scrollVars, menuVars >>

obsVars ==
    << revealStyle, skillProgress, skillAnimated, skillObserved, skillRuns,
       imgSrc, imgDataSrc, imgObserved, imgLoads, entries >>

vars == << formVars, navVars, obsVars, timers, lastEvent >>

\* An event as its listeners see it: its type, what it is about (the element,
\* the field or the key) and whether preventDefault was called
Event(type, target, prevented) ==
    [type |-> type, target |-> target, defaultPrevented |-> prevented]

\* ------------------------------------------------------------------------
\* Timers
\* ------------------------------------------------------------------------

Timer(delay, cb) == [delay |-> delay, cb |-> cb]

\* Timers run in order of expiry: a timer cannot run while one created
\* before it with a delay no longer than its own is still outstanding.
Fireable(i) ==
    /\ i \in 1..Len(timers)
    /\ \A j \in 1..(i - 1) : timers[j].delay > timers[i].delay

RemoveAt(seq, i) == SubSeq(seq, 1, i - 1) \o SubSeq(seq, i + 1, Len(seq))

FormCallbacks == {"resolveSubmission", "hideSuccess"}

FormTimers == { i \in 1..Len(timers) : timers[i].cb \in FormCallbacks }

\* Submissions whose simulateFormSubmission promise is still pending
PendingSubmissions ==
    { i \in 1..Len(timers) : timers[i].cb = "resolveSubmission" }

\* ------------------------------------------------------------------------
\* Contact form: handlers
\* ------------------------------------------------------------------------

InitForm ==
    /\ value = [f \in Fields |-> Empty]
    /\ inputError = [f \in Fields |-> FALSE]
    /\ errorVisible = [f \in Fields |-> FALSE]
    /\ errorText = [f \in Fields |-> ""]
    /\ touched = [f \in Fields |-> FALSE]
    /\ disabled = FALSE
    /\ textDisplay = "block"
    /\ loaderDisplay = "none"
    /\ successVisible = FALSE
    /\ formSuccessPresent \in BOOLEAN

\* The validators of the fields in fs run (showError / clearError): the
\* displays of the other fields are left alone.
RunValidators(fs) ==
    /\ inputError' =
         [f \in Fields |-> IF f \in fs THEN ~Check(f, value[f]).ok
                                       ELSE inputError[f]]
    /\ errorVisible' =
         [f \in Fields |-> IF f \in fs THEN ~Check(f, value[f]).ok
                                       ELSE errorVisible[f]]
    /\ errorText' =
         [f \in Fields |-> IF f \in fs /\ ~Check(f, value[f]).ok
                           THEN Check(f, value[f]).text
                           ELSE errorText[f]]
    /\ touched' = [f \in Fields |-> touched[f] \/ f \in fs]

\* Mutant of ErrorAfterInput: the listener leaves the error display alone
ErrorAfterInputKept(f, v) == errorVisible[f]

\* Mutant of ErrorAfterInput: the listener validates the new value
ErrorAfterInputRevalidated(f, v) == ~Check(f, v).ok

\* 'input' listener: the error display of the field after the user has
\* changed its value to v (both classes are removed, nothing is validated)
ErrorAfterInput(f, v) == FALSE

\* 'input' listener of a field: the user has changed the field to v
Input(f, v) ==
    /\ v # value[f]
    /\ value' = [value EXCEPT ![f] = v]
    /\ inputError' = [inputError EXCEPT ![f] = ErrorAfterInput(f, v)]
    /\ errorVisible' = [errorVisible EXCEPT ![f] = ErrorAfterInput(f, v)]
    /\ lastEvent' = Event("input", f, FALSE)
    /\ UNCHANGED << errorText, touched, disabled, textDisplay, loaderDisplay,
                    successVisible, formSuccessPresent, timers, navVars,
                    obsVars >>

\* 'blur' listener of a field
Blur(f) ==
    /\ RunValidators({f})
    /\ lastEvent' = Event("blur", f, FALSE)
    /\ UNCHANGED << value, disabled, textDisplay, loaderDisplay,
                    successVisible, formSuccessPresent, timers, navVars,
                    obsVars >>

\* Mutant of SubmitValidators: the validators are chained with &&, so the
\* first failure skips the rest
SubmitValidatorsShortCircuit ==
    {"name"}
    \cup (IF Check("name", value["name"]).ok THEN {"email"} ELSE {})
    \cup (IF Check("name", value["name"]).ok /\ Check("email", value["email"]).ok
          THEN {"message"} ELSE {})

\* The validators handleSubmit runs before it looks at any verdict
SubmitValidators == {"name", "email", "message"}

\* Mutant of AllValid: the verdicts are joined with the wrong connective
AnyValid == \E f \in Fields : Check(f, value[f]).ok

\* isNameValid && isEmailValid && isMessageValid
AllValid == \A f \in Fields : Check(f, value[f]).ok

\* 'submit' listener of the form, up to its await.  The listener runs for
\* every 'submit' event dispatched at the form and never reads
\* submitButton.disabled: a disabled control stops a click on it, not
\* form.requestSubmit() or a dispatched event.
HandleSubmit ==
    /\ RunValidators(SubmitValidators)
    /\ lastEvent' = Event("submit", "form", TRUE)
    /\ IF ~AllValid
       THEN UNCHANGED << disabled, textDisplay, loaderDisplay, timers >>
       ELSE /\ Cardinality(FormTimers) < MaxFormTimers
            /\ disabled' = TRUE
            /\ textDisplay' = "none"
            /\ loaderDisplay' = "block"
            /\ timers' = Append(timers, Timer(SubmissionDelay, "resolveSubmission"))
    /\ UNCHANGED << value, successVisible, formSuccessPresent, navVars, obsVars >>

\* Mutant of FinallyRuns: the button is reset at the end of the try block
FinallyOnlyAfterSuccess(threw) == ~threw

\* Whether the finally block runs, given that the try block threw or not
FinallyRuns(threw) == TRUE

\* The 2-second timer resolves the promise and handleSubmit resumes after
\* its await: try, catch, finally.
SubmissionSettles(i) ==
    /\ Fireable(i)
    /\ timers[i].cb = "resolveSubmission"
    /\ LET threw == ~formSuccessPresent IN
       /\ IF threw
          THEN /\ lastEvent' = Event("alert", "form", FALSE)
               /\ timers' = RemoveAt(timers, i)
               /\ UNCHANGED << value, successVisible >>
          ELSE /\ successVisible' = TRUE
               /\ value' = [f \in Fields |-> Empty]
               /\ timers' = Append(RemoveAt(timers, i),
                                   Timer(SuccessDisplayDelay, "hideSuccess"))
               /\ lastEvent' = Event("success", "form", FALSE)
       /\ IF FinallyRuns(threw)
          THEN /\ disabled' = FALSE
               /\ textDisplay' = "block"
               /\ loaderDisplay' = "none"
          ELSE UNCHANGED << disabled, textDisplay, loaderDisplay >>
    /\ UNCHANGED << inputError, errorVisible, errorText, touched,
                    formSuccessPresent, navVars, obsVars >>

\* The 5-second timer set after a success
HideSuccess(i) ==
    /\ Fireable(i)
    /\ timers[i].cb = "hideSuccess"
    /\ successVisible' = FALSE
    /\ timers' = RemoveAt(timers, i)
    /\ lastEvent' = Event("hideSuccess", "form", FALSE)
    /\ UNCHANGED << value, inputError, errorVisible, errorText, touched,
                    disabled, textDisplay, loaderDisplay, formSuccessPresent,
                    navVars, obsVars >>

\* ------------------------------------------------------------------------
\* Navigation: the document
\* ------------------------------------------------------------------------

Section(id, top) == [id |-> id, offsetTop |-> top]

\* Documents the script is loaded in: the sections in document order
Layouts ==
    { << Section("home", 0), Section("about", 600), Section("contact", 1200) >>,
      << Section("home", 300), Section("about", 350), Section("contact", 900) >>,
      << Section("home", 0), Section("about", 700) >>,
      << Section("contact", 800), Section("home", 0), Section("about", 500) >> }

\* The .nav-link elements in document order, and their href attributes
NavLinks == << "home", "about", "contact", "cv" >>

LinkSet == { NavLinks[i] : i \in 1..Len(NavLinks) }

Href(l) == IF l = "cv" THEN << "cv.pdf" >> ELSE << "#", l >>

\* Offsets the user scrolls the window to
ScrollOffsets == { 0, 50, 51, 100, 400, 1000 }

\* ------------------------------------------------------------------------
\* Navigation: throttled scroll handlers
\* ------------------------------------------------------------------------

\* setupScrollBehavior: the test of the throttled callback
PastScrolledThreshold(s) == s > ScrolledThreshold

\* Mutant of SectionReached: a strict comparison
SectionStrictlyPassed(s, top) == s > top - ActiveLookahead

\* setupActiveLinks: the test made on each section
\* Mutant of SectionReached: a section counts from its own top on
SectionReachedNoLookahead(s, top) == s >= top

SectionReached(s, top) == s >= top - ActiveLookahead

\* setupActiveLinks: sections.forEach, the last assignment to current wins
RECURSIVE ScanSections(_, _, _)
ScanSections(secs, s, current) ==
    IF secs = << >> THEN current
    ELSE ScanSections(Tail(secs), s,
                      IF SectionReached(s, Head(secs).offsetTop)
                      THEN Head(secs).id
                      ELSE current)

\* setupActiveLinks: navLinks.forEach, remove 'active' then add it on a match
LinksMatching(current) == { l \in LinkSet : Href(l) = << "#", current >> }

\* throttle: whether a call goes through to the wrapped function
Passes(h) == ~inThrottle[h]

\* A 'scroll' event at offset s: both listeners run, in registration order
ScrollHandlers(s) ==
    /\ navScrolled' = IF Passes("scrolled") THEN PastScrolledThreshold(s)
                                             ELSE navScrolled
    /\ activeLinks' = IF Passes("active")
                      THEN LinksMatching(ScanSections(sections, s, ""))
                      ELSE activeLinks
    /\ inThrottle' = [h \in DOMAIN inThrottle |-> TRUE]
    /\ timers' = timers
                 \o (IF Passes("scrolled")
                     THEN << Timer(ThrottleLimit, "scrolled") >> ELSE << >>)
                 \o (IF Passes("active")
                     THEN << Timer(ThrottleLimit, "active") >> ELSE << >>)

\* The user scrolls the window to offset s
Scroll(s) ==
    /\ s # scrollY
    /\ scrollY' = s
    /\ ScrollHandlers(s)
    /\ lastEvent' = Event("scroll", "window", FALSE)
    /\ UNCHANGED << sections, menuVars, formVars, obsVars >>

\* throttle: the timer that ends the window of handler timers[i].cb
ThrottleExpires(i) ==
    /\ Fireable(i)
    /\ timers[i].cb \in DOMAIN inThrottle
    /\ inThrottle' = [inThrottle EXCEPT ![timers[i].cb] = FALSE]
    /\ timers' = RemoveAt(timers, i)
    /\ lastEvent' = Event("throttleEnd", timers[i].cb, FALSE)
    /\ UNCHANGED << sections, scrollY, navScrolled, activeLinks, menuVars,
                    formVars, obsVars >>

\* ------------------------------------------------------------------------
\* Navigation: mobile menu and smooth scroll
\* ------------------------------------------------------------------------

\* Mutant of NavContains: only the toggle and the links count as inside
NavContainsControlsOnly(target) == target \in LinkSet \cup {"toggle"}

\* nav.contains(e.target) for the click targets of the model
NavContains(target) == target \in LinkSet \cup {"toggle", "navbar"}

\* Mutant of DocumentClick: the class is removed, the attribute is forgotten
DocumentClickClassOnly(target, m) ==
    IF ~NavContains(target)
    THEN [active |-> FALSE, aria |-> m.aria]
    ELSE m

\* The document's click listener (close the menu on an outside click),
\* applied to the menu state m left by the target's own listeners
DocumentClick(target, m) ==
    IF ~NavContains(target)
    THEN [active |-> FALSE, aria |-> "false"]
    ELSE m

\* Click on the toggle button
ClickToggle ==
    /\ LET isExpanded == ariaExpanded = "true"
           m == DocumentClick("toggle",
                  [active |-> ~menuActive,
                   aria |-> IF ~isExpanded THEN "true" ELSE "false"])
       IN /\ menuActive' = m.active
          /\ ariaExpanded' = m.aria
    /\ focus' = "toggle"
    /\ lastEvent' = Event("click", "toggle", FALSE)
    /\ UNCHANGED << sections, scrollVars, timers, formVars, obsVars >>

\* document.querySelector(href) for a fragment href: the section's index, or 0
TargetOf(l) ==
    IF \E i \in 1..Len(sections) : sections[i].id = l
    THEN CHOOSE i \in 1..Len(sections) : sections[i].id = l
    ELSE 0

\* window.scrollTo clamps the requested offset at the top of the document
ClampTop(y) == IF y < 0 THEN 0 ELSE y

\* Click on a nav link: the menu listener, the smooth-scroll listener, then
\* the document's listener.  The scroll is taken at its end offset, where
\* the 'scroll' event is dispatched.
ClickNavLink(l) ==
    /\ LET m == DocumentClick(l, [active |-> FALSE, aria |-> "false"])
       IN /\ menuActive' = m.active
          /\ ariaExpanded' = m.aria
    /\ focus' = l
    /\ IF Head(Href(l)) = "#"
       THEN /\ lastEvent' = Event("click", l, TRUE)
            /\ IF TargetOf(l) # 0
                  /\ ClampTop(sections[TargetOf(l)].offsetTop - HeaderOffset) # scrollY
               THEN /\ scrollY' = ClampTop(sections[TargetOf(l)].offsetTop - HeaderOffset)
                    /\ ScrollHandlers(scrollY')
               ELSE UNCHANGED << scrollVars, timers >>
       ELSE /\ lastEvent' = Event("click", l, FALSE)
            /\ UNCHANGED << scrollVars, timers >>
    /\ UNCHANGED << sections, formVars, obsVars >>

\* Click inside the nav container, on neither the toggle nor a link
ClickInsideNav ==
    /\ LET m == DocumentClick("navbar", [active |-> menuActive, aria |-> ariaExpanded])
       IN /\ menuActive' = m.active
          /\ ariaExpanded' = m.aria
    /\ focus' = "body"
    /\ lastEvent' = Event("click", "navbar", FALSE)
    /\ UNCHANGED << sections, scrollVars, timers, formVars, obsVars >>

\* Click outside the nav container
ClickOutside ==
    /\ LET m == DocumentClick("page", [active |-> menuActive, aria |-> ariaExpanded])
       IN /\ menuActive' = m.active
          /\ ariaExpanded' = m.aria
    /\ focus' = "body"
    /\ lastEvent' = Event("click", "page", FALSE)
    /\ UNCHANGED << sections, scrollVars, timers, formVars, obsVars >>

\* ------------------------------------------------------------------------
\* Accessibility: keyboard
\* ------------------------------------------------------------------------

\* navMenu.querySelectorAll('a, button')
FocusableElements == NavLinks

FirstFocusable == FocusableElements[1]

LastFocusable == FocusableElements[Len(FocusableElements)]

\* The document's sequential focus order: the toggle, the menu's links, then
\* the rest of the page
TabOrder == << "toggle" >> \o NavLinks \o << "page" >>

IndexIn(seq, x) == CHOOSE i \in 1..Len(seq) : seq[i] = x

\* The browser's default action for Tab and Shift+Tab
TabDefault(from, shift) ==
    IF from = "body"
    THEN IF shift THEN TabOrder[Len(TabOrder)] ELSE TabOrder[1]
    ELSE LET i == IndexIn(TabOrder, from) IN
         IF shift
         THEN IF i = 1 THEN TabOrder[Len(TabOrder)] ELSE TabOrder[i - 1]
         ELSE IF i = Len(TabOrder) THEN TabOrder[1] ELSE TabOrder[i + 1]

\* Mutant of EscapeCloses: Escape does not look at the menu's class
EscapeAlwaysCloses == TRUE

\* Mutant of TrapWraps: the menu has no keydown listener
TrapNeverWraps(shift) == FALSE

\* setupKeyboardNavigation: whether the Escape branch closes the menu
EscapeCloses == menuActive

\* setupFocusManagement: whether the listener wraps the focus
TrapWraps(shift) ==
    /\ focus \in LinkSet
    /\ IF shift THEN focus = FirstFocusable ELSE focus = LastFocusable

Keys == {"Escape", "Tab", "Enter"}

\* A 'keydown' event: navMenu's listener when the focus is inside the menu,
\* then the document's listener
KeyDown(key, shift) ==
    /\ IF key = "Escape" /\ EscapeCloses
       THEN /\ menuActive' = FALSE
            /\ ariaExpanded' = "false"
            /\ focus' = "toggle"
            /\ lastEvent' = Event("keydown", key, FALSE)
       ELSE IF key = "Tab"
       THEN /\ IF TrapWraps(shift)
               THEN /\ focus' = IF shift THEN LastFocusable ELSE FirstFocusable
                    /\ lastEvent' = Event("keydown", key, TRUE)
               ELSE /\ focus' = TabDefault(focus, shift)
                    /\ lastEvent' = Event("keydown", key, FALSE)
            /\ UNCHANGED << menuActive, ariaExpanded >>
       ELSE /\ lastEvent' = Event("keydown", key, FALSE)
            /\ UNCHANGED menuVars
    /\ UNCHANGED << sections, scrollVars, timers, formVars, obsVars >>

\* ------------------------------------------------------------------------
\* Intersection observers: reveal, skill bars, lazy images
\* ------------------------------------------------------------------------

\* document.querySelectorAll('[data-animate]')
RevealElements == {"heroTitle", "projectCard"}

\* document.querySelectorAll('.skill-progress') and their data-progress
SkillBars == {"htmlBar", "jsBar"}

DataProgress(b) == IF b = "htmlBar" THEN "90" ELSE "75"

\* document.querySelectorAll('img[data-src]') and their data-src
LazyImages == {"portrait", "screenshot"}

DataSrc(i) == IF i = "portrait" THEN "portrait.jpg" ELSE "screenshot.png"

Absent == "(absent)"

HiddenStyle == [opacity |-> "0", transform |-> "translateY(20px)"]

ShownStyle == [opacity |-> "1", transform |-> "translateY(0)"]

\* What one run of an observer's callback is given: one entry, with its
\* isIntersecting, for each of some targets the observer observes. (A run
\* is taken to carry at most one entry for a target.)
Batches(observed) ==
    UNION { [T -> BOOLEAN] : T \in (SUBSET observed) \ { {} } }

NoEntries == [t \in {} |-> FALSE]

InitObservers ==
    /\ revealStyle = [e \in RevealElements |-> HiddenStyle]
    /\ skillProgress = [b \in SkillBars |-> Absent]
    /\ skillAnimated = [b \in SkillBars |-> FALSE]
    /\ skillObserved = SkillBars
    /\ skillRuns = [b \in SkillBars |-> 0]
    /\ imgSrc = [i \in LazyImages |-> Absent]
    /\ imgDataSrc = [i \in LazyImages |-> DataSrc(i)]
    /\ imgObserved = LazyImages
    /\ imgLoads = [i \in LazyImages |-> 0]
    /\ entries = NoEntries

\* Mutant of StyleAfterEntry: an element that leaves the viewport is hidden
StyleAfterEntryReverting(isIntersecting, style) ==
    IF isIntersecting THEN ShownStyle ELSE HiddenStyle

\* setupIntersectionObserver: the style one entry leaves on its target
StyleAfterEntry(isIntersecting, style) ==
    IF isIntersecting THEN ShownStyle ELSE style

\* The callback of the reveal observer, which observes every element for good
RevealIntersect(es) ==
    /\ revealStyle' =
         [e \in RevealElements |->
            IF e \in DOMAIN es THEN StyleAfterEntry(es[e], revealStyle[e])
                               ELSE revealStyle[e]]
    /\ entries' = es
    /\ lastEvent' = Event("intersect", "reveal", FALSE)
    /\ UNCHANGED << skillProgress, skillAnimated, skillObserved, skillRuns,
                    imgSrc, imgDataSrc, imgObserved, imgLoads,
                    formVars, navVars, timers >>

\* Mutant of SkillObservedAfter: the bar is never unobserved
SkillObservedAfterKept(isIntersecting) == TRUE

\* animateSkillBars: whether the target of an entry is still observed after
\* it (observer.unobserve is called in the isIntersecting branch)
SkillObservedAfter(isIntersecting) == ~isIntersecting

\* The callback of the skill-bar observer
SkillIntersect(es) ==
    LET hit == { b \in DOMAIN es : es[b] } IN
    /\ skillProgress' =
         [b \in SkillBars |-> IF b \in hit THEN << DataProgress(b), "%" >>
                                          ELSE skillProgress[b]]
    /\ skillAnimated' = [b \in SkillBars |-> skillAnimated[b] \/ b \in hit]
    /\ skillObserved' =
         { b \in skillObserved : b \in DOMAIN es => SkillObservedAfter(es[b]) }
    /\ skillRuns' =
         [b \in SkillBars |-> IF b \in hit THEN skillRuns[b] + 1 ELSE skillRuns[b]]
    /\ entries' = es
    /\ lastEvent' = Event("intersect", "skill", FALSE)
    /\ UNCHANGED << revealStyle, imgSrc, imgDataSrc, imgObserved, imgLoads,
                    formVars, navVars, timers >>

\* Mutant of ImageObservedAfter: the image is never unobserved
ImageObservedAfterKept(isIntersecting) == TRUE

\* lazyLoadImages: whether the target of an entry is still observed after it
\* (imageObserver.unobserve is called in the isIntersecting branch)
ImageObservedAfter(isIntersecting) == ~isIntersecting

\* img.dataset.src
DatasetSrc(i) == IF imgDataSrc[i] = Absent THEN "undefined" ELSE imgDataSrc[i]

\* The callback of the lazy-image observer
ImageIntersect(es) ==
    LET hit == { i \in DOMAIN es : es[i] } IN
    /\ imgSrc' = [i \in LazyImages |-> IF i \in hit THEN DatasetSrc(i) ELSE imgSrc[i]]
    /\ imgDataSrc' = [i \in LazyImages |-> IF i \in hit THEN Absent ELSE imgDataSrc[i]]
    /\ imgObserved' =
         { i \in imgObserved : i \in DOMAIN es => ImageObservedAfter(es[i]) }
    /\ imgLoads' =
         [i \in LazyImages |-> IF i \in hit THEN imgLoads[i] + 1 ELSE imgLoads[i]]
    /\ entries' = es
    /\ lastEvent' = Event("intersect", "image", FALSE)
    /\ UNCHANGED << revealStyle, skillProgress, skillAnimated, skillObserved,
                    skillRuns, formVars, navVars, timers >>

\* ------------------------------------------------------------------------
\* Specifications
\* ------------------------------------------------------------------------

InitNav ==
    /\ sections \in Layouts
    /\ scrollY = 0
    /\ navScrolled = FALSE
    /\ activeLinks = {}
    /\ inThrottle = [h \in {"scrolled", "active"} |-> FALSE]
    /\ menuActive = FALSE
    /\ ariaExpanded \in {"absent", "false"}
    /\ focus = "body"

InitTimers ==
    /\ timers = <<>>
    /\ lastEvent = Event("load", "document", FALSE)

Init == InitForm /\ InitNav /\ InitObservers /\ InitTimers

NextForm ==
    \/ \E f \in Fields : \E v \in TypedValues(f) : Input(f, v)
    \/ \E f \in Fields : Blur(f)
    \/ HandleSubmit
    \/ \E i \in 1..Len(timers) : SubmissionSettles(i)
    \/ \E i \in 1..Len(timers) : HideSuccess(i)

NextObservers ==
    \/ \E es \in Batches(RevealElements) : RevealIntersect(es)
    \/ \E es \in Batches(skillObserved) : SkillIntersect(es)
    \/ \E es \in Batches(imgObserved) : ImageIntersect(es)

NextNav ==
    \/ \E s \in ScrollOffsets : Scroll(s)
    \/ \E i \in 1..Len(timers) : ThrottleExpires(i)
    \/ ClickToggle
    \/ \E l \in LinkSet : ClickNavLink(l)
    \/ ClickInsideNav
    \/ ClickOutside
    \/ \E key \in Keys : \E shift \in BOOLEAN : KeyDown(key, shift)

\* The document at rest around the contact form
InitFormOnly ==
    /\ Init
    /\ sections = << Section("home", 0), Section("about", 600), Section("contact", 1200) >>
    /\ ariaExpanded = "false"

\* The contact form
SpecForm == InitFormOnly /\ [][NextForm]_vars

\* The contact form with its timers bound to run
SpecFormFair ==
    /\ SpecForm
    /\ WF_vars(\E i \in 1..Len(timers) : SubmissionSettles(i))
    /\ WF_vars(\E i \in 1..Len(timers) : HideSuccess(i))

\* A submit made through the submit control: the browser dispatches no
\* 'submit' event from a disabled control
SubmitByControl == ~disabled /\ HandleSubmit

NextFormByControl ==
    \/ \E f \in Fields : \E v \in TypedValues(f) : Input(f, v)
    \/ \E f \in Fields : Blur(f)
    \/ SubmitByControl
    \/ \E i \in 1..Len(timers) : SubmissionSettles(i)
    \/ \E i \in 1..Len(timers) : HideSuccess(i)

\* The contact form driven through its controls only
SpecFormByControl == InitFormOnly /\ [][NextFormByControl]_vars

InitNavOnly == Init /\ formSuccessPresent = TRUE

\* The navigation and the keyboard handlers, the form left alone
SpecNav == InitNavOnly /\ [][NextNav]_vars

\* The form has not been used and none of its timers is outstanding
FormAtRest ==
    /\ InitForm
    /\ FormTimers = {}

\* The window has not been scrolled, the menu and the focus are untouched
NavAtRest ==
    /\ InitNav
    /\ FormTimers = 1..Len(timers)

InitPage ==
    /\ Init
    /\ sections = << Section("home", 0), Section("about", 600), Section("contact", 1200) >>

\* Messages over a letter and a blank, up to MessageMaxLen characters
MessageAlphabet == { "a", " " }

MessageStrings == UNION { [1..n -> MessageAlphabet] : n \in 0..MessageMaxLen }

\* The page once a message has been typed into the untouched form
InitMessage ==
    /\ \E m \in MessageStrings :
          value = [f \in Fields |-> IF f = "message" THEN m ELSE Empty]
    /\ inputError = [f \in Fields |-> FALSE]
    /\ errorVisible = [f \in Fields |-> FALSE]
    /\ errorText = [f \in Fields |-> ""]
    /\ touched = [f \in Fields |-> FALSE]
    /\ disabled = FALSE
    /\ textDisplay = "block"
    /\ loaderDisplay = "none"
    /\ successVisible = FALSE
    /\ formSuccessPresent = TRUE
    /\ InitNav
    /\ sections = << Section("home", 0), Section("about", 600), Section("contact", 1200) >>
    /\ ariaExpanded = "false"
    /\ InitObservers
    /\ InitTimers

NextMessage == Blur("message")

\* validateMessage on its own: any message is typed, then the field is left
SpecMessage == InitMessage /\ [][NextMessage]_vars

\* No observer callback has run
ObserversAtRest == InitObservers

\* Every handler of the page: each component is explored from the page as
\* loaded, while the other ones are at rest.
NextPage ==
    \/ FormAtRest /\ ObserversAtRest /\ NextNav
    \/ NavAtRest /\ ObserversAtRest /\ NextForm
    \/ FormAtRest /\ NavAtRest /\ NextObservers

\* The intersection observers, the rest of the page left alone
SpecObservers == InitFormOnly /\ [][NextObservers]_vars

SpecPage == InitPage /\ [][NextPage]_vars

\* ------------------------------------------------------------------------
\* Properties of the contact form
\* ------------------------------------------------------------------------

Invalid(f) == ~Check(f, value[f]).ok

\* C1 (as claimed): at most one submission is in flight: in every reachable
\* state at most one simulateFormSubmission promise is pending.  handleSubmit
\* never reads submitButton.disabled, so a 'submit' event that reaches it
\* while a submission is pending starts a second one.
C1_AtMostOneInFlight == Cardinality(PendingSubmissions) <= 1

\* C2: cleanup is unconditional: whenever a submission has disabled the
\* submit control, a state follows in which the control is enabled, its label
\* is shown and its loader is hidden, whether the try block threw or not.
C2_CleanupUnconditional ==
    disabled ~> (~disabled /\ textDisplay = "block" /\ loaderDisplay = "none")

\* C2 witness: a submission whose try block threw has been cleaned up.
C2_Witness ==
    /\ lastEvent.type = "alert"
    /\ ~disabled /\ textDisplay = "block" /\ loaderDisplay = "none"
    /\ PendingSubmissions = {}

\* The lifecycle state the view shows
SubmissionState ==
    IF PendingSubmissions # {} THEN "Submitting"
    ELSE IF successVisible THEN "Success"
    ELSE "Idle"

\* What brings each lifecycle transition about.  Failed is passed through
\* inside one run of handleSubmit's continuation (catch, then finally).
TransitionCause(a, b) ==
    CASE a = "Idle" /\ b = "Submitting" ->
           lastEvent'.type = "submit" /\ \A f \in Fields : ~Invalid(f)
      [] a = "Submitting" /\ b = "Success" -> lastEvent'.type = "success"
      [] a = "Submitting" /\ b = "Idle" -> lastEvent'.type = "alert"
      [] a = "Success" /\ b = "Idle" -> lastEvent'.type = "hideSuccess"
      [] a = "Success" /\ b = "Submitting" ->
           lastEvent'.type = "submit" /\ \A f \in Fields : ~Invalid(f)
      [] OTHER -> FALSE

\* C3 (as claimed): the lifecycle takes only the transitions Idle->Submitting,
\* Submitting->Success, Submitting->Failed->Idle and Success->Idle, each by
\* its listed cause; Success is left only toward Idle, by the hide timeout.
C3_ListedTransitionsOnly ==
    [][SubmissionState' # SubmissionState =>
         /\ << SubmissionState, SubmissionState' >> \in
              { << "Idle", "Submitting" >>, << "Submitting", "Success" >>,
                << "Submitting", "Idle" >>, << "Success", "Idle" >> }
         /\ TransitionCause(SubmissionState, SubmissionState')]_vars

\* C3 (amended): the lifecycle takes only the listed transitions and
\* Success->Submitting, taken by a submit with all three fields valid while
\* the success indicator is still displayed; each by its cause.
C3_TransitionsWithResubmit ==
    [][SubmissionState' # SubmissionState =>
         /\ << SubmissionState, SubmissionState' >> \in
              { << "Idle", "Submitting" >>, << "Submitting", "Success" >>,
                << "Submitting", "Idle" >>, << "Success", "Idle" >>,
                << "Success", "Submitting" >> }
         /\ TransitionCause(SubmissionState, SubmissionState')]_vars

\* C3 witness: a second submission has been started from Success.
C3_Witness ==
    /\ lastEvent.type = "submit"
    /\ SubmissionState = "Submitting"
    /\ successVisible
    /\ Cardinality(PendingSubmissions) = 1

\* C4: a submit with at least one invalid field is aborted: no timer is set,
\* the submit control, the success indicator and the values are unchanged,
\* every invalid field shows its error and every valid field hides it (all
\* three validators ran), and the event's default action is suppressed.
C4_InvalidSubmitAborted ==
    [][(lastEvent'.type = "submit" /\ \E f \in Fields : Invalid(f)) =>
         /\ timers' = timers
         /\ UNCHANGED << disabled, textDisplay, loaderDisplay >>
         /\ UNCHANGED << successVisible, value >>
         /\ \A f \in Fields : /\ errorVisible'[f] = Invalid(f)
                              /\ inputError'[f] = Invalid(f)
                              /\ touched'[f]
         /\ lastEvent'.defaultPrevented]_vars

\* C4 witness: after an aborted submit with the control enabled, the first
\* field is invalid and a later one too, and a valid field hides its error.
C4_Witness ==
    /\ lastEvent.type = "submit"
    /\ ~disabled /\ textDisplay = "block" /\ timers = << >>
    /\ Invalid("name") /\ errorVisible["name"]
    /\ Invalid("message") /\ errorVisible["message"]
    /\ ~Invalid("email") /\ ~errorVisible["email"]

\* C9 (as claimed): a field's error is displayed if and only if its current
\* value is invalid and the field has been blurred or submitted.
C9_ErrorIffInvalidAndTouched ==
    \A f \in Fields : errorVisible[f] <=> (Invalid(f) /\ touched[f])

\* C9 (amended): a field's error is displayed only if its current value is
\* invalid and the field has been blurred or submitted.
C9_ErrorOnlyIfInvalidAndTouched ==
    \A f \in Fields : errorVisible[f] => (Invalid(f) /\ touched[f])

\* C9 witness: an error shown for a value typed during a submission is still
\* displayed after the success has reset the field.
C9_Witness ==
    /\ lastEvent.type = "success"
    /\ \E f \in Fields : errorVisible[f] /\ value[f] = Empty /\ touched[f]

\* C10: an input event on a field hides that field's error whatever the new
\* value is, and leaves the other fields' errors, the submit control and the
\* success indicator unchanged; a hidden error becomes visible only by a blur
\* of its field or by a submit that finds the field invalid.
C10_InputClearsOwnErrorOnly ==
    [][/\ \A f \in Fields :
            (lastEvent'.type = "input" /\ lastEvent'.target = f) =>
               /\ ~errorVisible'[f]
               /\ \A g \in Fields \ {f} : errorVisible'[g] = errorVisible[g]
               /\ UNCHANGED << disabled, textDisplay, loaderDisplay,
                               successVisible >>
       /\ \A f \in Fields :
            (~errorVisible[f] /\ errorVisible'[f]) =>
               \/ lastEvent'.type = "blur" /\ lastEvent'.target = f /\ Invalid(f)
               \/ lastEvent'.type = "submit" /\ Invalid(f)]_vars

\* C10 witness: typing an invalid value into a validated field has hidden
\* its error while another field's error stays displayed.
C10_Witness ==
    /\ lastEvent.type = "input"
    /\ \E f \in Fields :
          /\ lastEvent.target = f
          /\ touched[f] /\ Invalid(f) /\ value[f] # Empty /\ ~errorVisible[f]
          /\ \E g \in Fields \ {f} : errorVisible[g]

\* The verdict of validateMessage as the page shows it
MessageVerdict ==
    IF ~errorVisible["message"] THEN "Valid"
    ELSE IF errorText["message"] = "Le message est requis" THEN "EmptyField"
    ELSE IF errorText["message"] = "Le message doit contenir au moins 10 caracteres"
         THEN "TooShort"
         ELSE "Other"

\* The verdict a message of n characters is to get
VerdictForLength(n) ==
    IF n = 0 THEN "EmptyField"
    ELSE IF n < MinMessageLength THEN "TooShort" ELSE "Valid"

\* The last step validated the message field on blur
MessageValidated == lastEvent.type = "blur" /\ lastEvent.target = "message"

\* C14 (as claimed): validateMessage judges the message by its length: valid
\* from 10 characters on, TooShort for 1 to 9 characters, EmptyField for the
\* empty string, blanks counted like any character.
C14_VerdictByLength ==
    MessageValidated => MessageVerdict = VerdictForLength(Len(value["message"]))

\* Characters from the first to the last non-blank one
TrimmedLength(s) ==
    LET solid == { i \in 1..Len(s) : s[i] \notin Whitespace } IN
    IF solid = {} THEN 0
    ELSE (CHOOSE i \in solid : \A j \in solid : j <= i)
         - (CHOOSE i \in solid : \A j \in solid : i <= j) + 1

\* C14 (amended): validateMessage judges the message by its length without
\* leading and trailing blanks: valid from 10 such characters on, TooShort
\* for 1 to 9, EmptyField when nothing is left (empty or blank only).
C14_VerdictByTrimmedLength ==
    MessageValidated =>
        MessageVerdict = VerdictForLength(TrimmedLength(value["message"]))

\* C14 witness: a message of at least 10 characters, blanks at its ends
\* included, has been judged TooShort
C14_Witness ==
    /\ MessageValidated
    /\ Len(value["message"]) >= MinMessageLength
    /\ MessageVerdict = "TooShort"

\* The success-hide timers still outstanding
HideTimers == { i \in 1..Len(timers) : timers[i].cb = "hideSuccess" }

\* C11 (as claimed): every success leaves the three fields empty and the
\* success indicator visible, and the indicator is hidden 5 seconds after
\* that success and not before: the step that hides it runs the hide timer
\* of the latest success, so no later hide timer is left outstanding.
C11_HiddenFiveSecondsAfterSuccess ==
    [][/\ lastEvent'.type = "success" =>
            /\ successVisible'
            /\ \A f \in Fields : value'[f] = Empty
       /\ (successVisible /\ ~successVisible') =>
            /\ lastEvent'.type = "hideSuccess"
            /\ HideTimers' = {}]_vars

\* C19 (as claimed): when the success indicator is shown the form is
\* pristine, whatever was typed and blurred while the submission was in
\* flight: the three values are empty and no field displays an error.
C19_PristineAtSuccess ==
    lastEvent.type = "success" =>
        \A f \in Fields : value[f] = Empty /\ ~errorVisible[f] /\ ~inputError[f]

\* ------------------------------------------------------------------------
\* Properties of the intersection observers
\* ------------------------------------------------------------------------

\* The last step was the callback of observer o
ObserverRan(o) == lastEvent.type = "intersect" /\ lastEvent.target = o

\* The last callback was given an intersecting entry for target t
IntersectingEntry(t) == t \in DOMAIN entries /\ entries[t]

\* The last callback was given a non-intersecting entry for target t
LeavingEntry(t) == t \in DOMAIN entries /\ ~entries[t]

\* C12: every skill bar starts Pending; the callback that is given the bar's
\* first intersecting entry sets --progress-width to its data-progress
\* percentage and adds 'animated'; that happens at most once for a bar, no
\* other step animates a bar, and an Animated bar keeps its flag and its
\* progress for good.
C12_SkillBarAnimatesOnce ==
    /\ \A b \in SkillBars : ~skillAnimated[b] /\ skillProgress[b] = Absent
    /\ [][\A b \in SkillBars :
            /\ skillRuns'[b] <= 1
            /\ (ObserverRan("skill")' /\ IntersectingEntry(b)') =>
                   /\ ~skillAnimated[b]
                   /\ skillAnimated'[b]
                   /\ skillProgress'[b] = << DataProgress(b), "%" >>
            /\ (~skillAnimated[b] /\ skillAnimated'[b]) =>
                   ObserverRan("skill")' /\ IntersectingEntry(b)'
            /\ ~skillAnimated'[b] => skillProgress'[b] = Absent
            /\ skillAnimated[b] =>
                   /\ skillAnimated'[b]
                   /\ skillProgress'[b] = skillProgress[b]
                   /\ skillRuns'[b] = skillRuns[b]]_vars

\* C12 witness: one bar is Animated and unobserved, and its observer's
\* callback has run again since, for the other bar leaving the viewport
C12_Witness ==
    \E b \in SkillBars :
        /\ skillAnimated[b] /\ skillRuns[b] = 1
        /\ b \notin skillObserved
        /\ ObserverRan("skill")
        /\ b \notin DOMAIN entries
        /\ \E c \in SkillBars : LeavingEntry(c)

\* C13: every [data-animate] element starts Hidden (opacity 0, translated
\* 20px); a callback given an intersecting entry for it leaves it Revealed;
\* nothing else reveals it; and a Revealed element is Revealed after every
\* later step, whatever entries that step is given.
C13_RevealIsOneWay ==
    /\ \A e \in RevealElements : revealStyle[e] = HiddenStyle
    /\ [][\A e \in RevealElements :
            /\ revealStyle'[e] \in { HiddenStyle, ShownStyle }
            /\ (ObserverRan("reveal")' /\ IntersectingEntry(e)') =>
                   revealStyle'[e] = ShownStyle
            /\ (revealStyle[e] = HiddenStyle /\ revealStyle'[e] = ShownStyle) =>
                   ObserverRan("reveal")' /\ IntersectingEntry(e)'
            /\ revealStyle[e] = ShownStyle => revealStyle'[e] = ShownStyle]_vars

\* C13 witness: a Revealed element has just been reported as having left the
\* viewport
C13_Witness ==
    \E e \in RevealElements :
        /\ revealStyle[e] = ShownStyle
        /\ ObserverRan("reveal")
        /\ LeavingEntry(e)

\* C17: a lazy image has no src and keeps its data-src until a callback is
\* given an intersecting entry for it; that callback assigns the data-src
\* value to src and removes data-src; this happens at most once for an image,
\* and no later step changes src or brings data-src back.
C17_ImageLoadsAtMostOnce ==
    /\ [](\A i \in LazyImages :
            imgLoads[i] = 0 => imgSrc[i] = Absent /\ imgDataSrc[i] = DataSrc(i))
    /\ [][\A i \in LazyImages :
            /\ imgLoads'[i] <= 1
            /\ (ObserverRan("image")' /\ IntersectingEntry(i)') =>
                   /\ imgLoads[i] = 0
                   /\ imgSrc'[i] = DataSrc(i)
                   /\ imgDataSrc'[i] = Absent
            /\ imgLoads'[i] # imgLoads[i] =>
                   ObserverRan("image")' /\ IntersectingEntry(i)'
            /\ imgLoads[i] = 1 => /\ imgSrc'[i] = imgSrc[i]
                                  /\ imgDataSrc'[i] = Absent
                                  /\ imgLoads'[i] = 1]_vars

\* C17 witness: one image is loaded and unobserved, and the observer's
\* callback has run again since for the other image
C17_Witness ==
    \E i \in LazyImages :
        /\ imgLoads[i] = 1 /\ imgSrc[i] = DataSrc(i) /\ imgDataSrc[i] = Absent
        /\ i \notin imgObserved
        /\ ObserverRan("image")
        /\ i \notin DOMAIN entries


\* ------------------------------------------------------------------------
\* Properties of the navigation
\* ------------------------------------------------------------------------

Threshold(i) == sections[i].offsetTop - ActiveLookahead

ThresholdsIncreasing ==
    \A i, j \in 1..Len(sections) : i < j => Threshold(i) < Threshold(j)

\* The id of the section with the largest threshold <= s, or "" if none
LargestThresholdSection(s) ==
    LET reached == { i \in 1..Len(sections) : Threshold(i) <= s } IN
    IF reached = {} THEN ""
    ELSE sections[CHOOSE i \in reached :
                    \A j \in reached : Threshold(j) <= Threshold(i)].id

\* The id of the last section, in document order, whose threshold is <= s
LastReachedSection(s) ==
    LET reached == { i \in 1..Len(sections) : Threshold(i) <= s } IN
    IF reached = {} THEN ""
    ELSE sections[CHOOSE i \in reached : \A j \in reached : j <= i].id

LinksTo(id) == { l \in LinkSet : Href(l) = << "#", id >> }

\* C5: each time the active-link handler runs at offset S over sections with
\* strictly increasing thresholds, the links left active are exactly those
\* whose href is '#' + the id of the section with the largest threshold <= S
\* (the empty id if no threshold is <= S).
C5_HandlerSelectsLargestThreshold ==
    [][(scrollY' # scrollY /\ ~inThrottle["active"] /\ ThresholdsIncreasing) =>
         activeLinks' = LinksTo(LargestThresholdSection(scrollY'))]_vars

\* C5 witness: the handler has run at an offset equal to the threshold of a
\* section after the first, and that section's link alone is active.
C5_Witness ==
    /\ lastEvent.type = "scroll"
    /\ ThresholdsIncreasing
    /\ \E i \in 2..Len(sections) :
          scrollY = Threshold(i) /\ activeLinks = { sections[i].id }

\* C6 (as claimed): after any sequence of scroll events through the throttle,
\* the active link is that of the last section whose offsetTop - 200 is <=
\* the current scroll offset.
C6_ActiveLinkTracksScroll ==
    lastEvent.type = "scroll" => activeLinks = LinksTo(LastReachedSection(scrollY))

\* The scrolling is over: the last step was the expiry of a throttle timer
\* and no throttle timer is left
ScrollSettled ==
    /\ lastEvent.type = "throttleEnd"
    /\ timers = << >>
    /\ \A h \in DOMAIN inThrottle : ~inThrottle[h]

\* C18 (as claimed): once a burst of scroll events is over and every throttle
\* timer has expired, the navbar has 'scrolled' if and only if the final
\* scroll offset exceeds 50, and the active link is that of the last section
\* whose offsetTop - 200 is <= the final scroll offset.
C18_SettledStateMatchesFinalOffset ==
    ScrollSettled =>
        /\ navScrolled <=> scrollY > ScrolledThreshold
        /\ activeLinks = LinksTo(LastReachedSection(scrollY))

\* C7: navToggle's aria-expanded is 'true' if and only if navMenu carries
\* the 'active' class.
C7_AriaMirrorsMenu == (ariaExpanded = "true") <=> menuActive

\* C7 witness: a click on the toggle has opened the menu.
C7_Witness ==
    /\ lastEvent.type = "click" /\ lastEvent.target = "toggle"
    /\ menuActive /\ ariaExpanded = "true"

\* C8: the menu's open/closed state changes only on a toggle-button click, a
\* nav-link click, an outside click or an Escape key press.
C8_MenuChangesOnlyByItsEvents ==
    [][menuActive' # menuActive =>
         \/ lastEvent'.type = "click" /\ lastEvent'.target \in LinkSet \cup {"toggle", "page"}
         \/ lastEvent'.type = "keydown" /\ lastEvent'.target = "Escape"]_vars

\* C8 witness: a click inside the nav container, on neither the toggle nor a
\* link, has left the menu open.
C8_Witness ==
    /\ lastEvent.type = "click" /\ lastEvent.target = "navbar"
    /\ menuActive

\* The last step was a press of key
KeyPressed(key) == lastEvent.type = "keydown" /\ lastEvent.target = key

\* C15: a press of Escape while the menu is open closes it, sets
\* aria-expanded to "false" and focuses the toggle; a press of Escape while
\* the menu is closed leaves the menu, aria-expanded and the focus as they
\* were.
C15_EscapeClosesOpenMenuOnly ==
    [][KeyPressed("Escape")' =>
          IF menuActive
          THEN /\ ~menuActive'
               /\ ariaExpanded' = "false"
               /\ focus' = "toggle"
          ELSE UNCHANGED << menuActive, ariaExpanded, focus >>]_vars

\* C15 witness: Escape has been pressed and has left the menu closed, the
\* toggle collapsed and focused
C15_Witness ==
    /\ KeyPressed("Escape")
    /\ ~menuActive
    /\ ariaExpanded = "false"
    /\ focus = "toggle"

\* The neighbour of l in the menu, going round at its ends
Adjacent(l, shift) ==
    LET n == Len(FocusableElements)
        i == IndexIn(FocusableElements, l) IN
    IF shift THEN FocusableElements[((i + n - 2) % n) + 1]
             ELSE FocusableElements[(i % n) + 1]

\* C16: with the menu open and the focus on one of its focusable elements,
\* a press of Tab or Shift+Tab leaves the menu open and the focus on the
\* next, respectively previous, focusable element of the menu, the first
\* following the last and the last preceding the first.
C16_FocusStaysInOpenMenu ==
    [][\A shift \in BOOLEAN :
          (menuActive /\ focus \in LinkSet /\ KeyDown("Tab", shift)) =>
              /\ menuActive'
              /\ focus' \in LinkSet
              /\ focus' = Adjacent(focus, shift)]_vars

\* C16 witness: in the open menu a Tab on the last element has been
\* intercepted and the focus is on the first one
C16_Witness ==
    /\ KeyPressed("Tab")
    /\ lastEvent.defaultPrevented
    /\ menuActive
    /\ focus = FirstFocusable

\* The sections follow one another down the page
OffsetsIncreasing ==
    \A i, j \in 1..Len(sections) :
        i < j => sections[i].offsetTop < sections[j].offsetTop

\* This step is a click on the link of section i that scrolls the window to
\* offsetTop - 80 and runs the active-link handler there
ClickScrollsTo(i) ==
    /\ lastEvent'.type = "click"
    /\ lastEvent'.target = sections[i].id
    /\ scrollY' = sections[i].offsetTop - HeaderOffset
    /\ scrollY' # scrollY
    /\ ~inThrottle["active"]

\* C20 (as claimed): in a layout of sections with increasing offsetTop, a
\* click on the link of section X that scrolls the window to
\* offsetTop(X) - 80, the active-link handler running there, marks X's link
\* and no other as active.
C20_ClickActivatesItsLink ==
    [][OffsetsIncreasing =>
          \A i \in 1..Len(sections) :
              ClickScrollsTo(i) => activeLinks' = LinksTo(sections[i].id)]_vars

\* Every section after section i starts more than 200 - 80 pixels below it
NextSectionsOutOfLookahead(i) ==
    \A j \in (i + 1)..Len(sections) :
        sections[j].offsetTop - ActiveLookahead
            > sections[i].offsetTop - HeaderOffset

\* C20 (amended): the same, for a section X whose followers all start more
\* than 120 pixels below it, so that none of them is within the 200-pixel
\* lookahead at offsetTop(X) - 80.
C20_ClickActivatesLinkOfTallSection ==
    [][OffsetsIncreasing =>
          \A i \in 1..Len(sections) :
              (NextSectionsOutOfLookahead(i) /\ ClickScrollsTo(i)) =>
                  activeLinks' = LinksTo(sections[i].id)]_vars

\* C20 witness: a click on the 'about' link has scrolled the window to 80
\* pixels above that section, the next section lies further down than the
\* lookahead, the handler has run and 'about' is the active link
C20_Witness ==
    /\ OffsetsIncreasing
    /\ lastEvent.type = "click" /\ lastEvent.target = "about"
    /\ \E i \in 1..Len(sections) :
          /\ sections[i].id = "about"
          /\ i < Len(sections)
          /\ NextSectionsOutOfLookahead(i)
          /\ scrollY = sections[i].offsetTop - HeaderOffset
    /\ timers # << >> /\ timers[Len(timers)].cb = "active"
    /\ activeLinks = { "about" }

====
